---------------------------- MODULE Spec2Model ----------------------------
(***************************************************************************)
(* Model of the retail novelty agent of inventor-ai:                       *)
(*   - the eBay Browse client (OAuth token cache, searchEbay,              *)
(*     searchSimilarProducts) of src/lib/search/ebay.ts, and               *)
(*   - runRetailSearchAgent, the two-phase pipeline on top of it.          *)
(*                                                                         *)
(* Conventions.                                                            *)
(*   Time is counted in units of five minutes, the refresh buffer of the   *)
(*   token cache (the code counts milliseconds).                           *)
(*   Scores and confidences are counted in hundredths: 30 is 0.3.          *)
(*   A JavaScript string is a sequence of chunks; concatenation and        *)
(*   template interpolation are \o, the empty string is << >>.             *)
(*   An optional value (null / undefined or a value) is a sequence of      *)
(*   length 0 or 1.                                                        *)
(***************************************************************************)
EXTENDS Integers, Sequences, FiniteSets, TLC

(***************************************************************************)
(* Bounds of the model.                                                    *)
(***************************************************************************)
\* concurrent callers of searchEbay in SpecSearch
NCallers == 2
\* the clock stops at MaxClock in SpecSearch
MaxClock == 2
\* the clock stops at AgentMaxClock in Spec
AgentMaxClock == 1
\* tokens the OAuth server issues in one behaviour
MaxTokens == 2
\* entries in the oracle's product_analyses
MaxAnalyses == 2

\* writers of the search cache in SpecCache
NWriters == 2
\* the database clock stops at MaxDbClock in SpecCache
MaxDbClock == 2
\* rows inserted into search_cache in one behaviour
MaxInserts == 2

\* 5 * 60 * 1000 ms, the refresh buffer of getAccessToken, in time units
Buffer == 1

\* the 7-day TTL of the web and retail partitions, in days
DefaultTtl == 7

Callers == 1 .. NCallers
\* the caller that runs runRetailSearchAgent in Spec: the first one
AgentCaller == CHOOSE c \in Callers : \A d \in Callers : c <= d

\* expires_in values the OAuth server answers with, in time units: twice
\* the buffer (fresh for one unit, then stale, then lapsed) and the
\* documented 7200 s
ExpiresInSet == {2, 24}

VARIABLES
    env,          \* process.env: EBAY_CLIENT_ID, EBAY_CLIENT_SECRET
    now,          \* Date.now()
    cachedToken,  \* the module-level token cache: << >> (null) or <<[token, expiresAt]>>
    issued,       \* number of tokens the OAuth server has issued
    pc,           \* pc[c]: where caller c's searchEbay call stands
    startNow,     \* startNow[c]: getAccessToken's local `now`
    accessToken,  \* accessToken[c]: searchEbay's local accessToken (option)
    ebayResult,   \* ebayResult[c]: what searchEbay returned
    oauthRequests,   \* requests sent to the OAuth endpoint since the call began
    searchRequests,  \* requests sent to the search endpoint since the call began
    limit,        \* limit[c]: searchEbay's local `limit`, sent with the search request
    apc,          \* where the runRetailSearchAgent invocation stands
    request,      \* its NoveltyCheckRequest (option)
    findings,     \* its local findings
    analysisResult,  \* its local analysisResult (option): the parsed oracle reply
    oracleRequests,  \* requests sent to the scoring oracle by the invocation
    result,       \* the NoveltyResult it resolved to (option)
    search_cache, \* the rows of public.search_cache
    dbNow,        \* the database's NOW(), in days
    nextId,       \* uuid_generate_v4(): the next id not yet given out
    lastOp,       \* the last operation on the cache and what it returned
    component,    \* the results list that is mounted: "none", "RetailResults", "WebResults"
    props,        \* its findings prop
    findingStates,   \* its findingStates: id -> FindingState
    notesField,   \* notesField[id]: << >> (card collapsed) or <<[isEditing, draft]>>
    uiEvent,      \* the handler that ran last and its calls of NotesField's onChange
    agentResults, \* the NoveltyResults collected for one novelty check: agent -> result
    aggregate     \* the combined verdict of the check (option)

svars == <<env, now, cachedToken, issued, pc, startNow, accessToken,
           ebayResult, oauthRequests, searchRequests, limit>>
avars == <<apc, request, findings, analysisResult, oracleRequests, result>>
cvars == <<search_cache, dbNow, nextId, lastOp>>
uvars == <<component, props, findingStates, notesField, uiEvent>>
gvars == <<agentResults, aggregate>>
vars == <<env, now, cachedToken, issued, pc, startNow, accessToken,
          ebayResult, oauthRequests, searchRequests, limit,
          apc, request, findings, analysisResult, oracleRequests, result,
          search_cache, dbNow, nextId, lastOp,
          component, props, findingStates, notesField, uiEvent,
          agentResults, aggregate>>

(***************************************************************************)
(* eBay data.                                                              *)
(***************************************************************************)
ItemIds == {"v1|101", "v1|102"}

\* EbayProduct: what the provider lists under an item id.  The first has
\* every field the agent reads, the second lacks condition and price.
Catalog(id) ==
    IF id = "v1|101"
    THEN [itemId |-> id, title |-> <<"Solar Phone Case">>,
          itemWebUrl |-> <<"https://www.ebay.com/itm/101">>,
          price |-> <<[currency |-> "USD", value |-> "19.99"]>>,
          condition |-> <<"Used">>]
    ELSE [itemId |-> id, title |-> <<"USB Charger">>,
          itemWebUrl |-> <<"https://www.ebay.com/itm/102">>,
          price |-> << >>,
          condition |-> << >>]

RECURSIVE SeqsUpTo(_, _)
\* all sequences over S of length at most n
SeqsUpTo(S, n) ==
    IF n = 0 THEN {<< >>}
    ELSE LET shorter == SeqsUpTo(S, n - 1)
         IN  shorter \cup {Append(s, x) : s \in {t \in shorter : Len(t) = n - 1}, x \in S}

\* pages of results the provider may answer with: any items of the
\* catalogue in any order, an item listed at most once
ProductLists ==
    {[i \in 1 .. Len(ids) |-> Catalog(ids[i])] :
        ids \in {l \in SeqsUpTo(ItemIds, Cardinality(ItemIds)) :
                    \A i, j \in 1 .. Len(l) : l[i] = l[j] => i = j}}

\* EbaySearchResponse bodies: itemSummaries is optional
SearchResponses ==
    {[itemSummaries |-> <<l>>, total |-> Len(l)] : l \in ProductLists}
        \cup {[itemSummaries |-> << >>, total |-> 0]}

(***************************************************************************)
(* Errors.  A thrown value is [isError, message].                          *)
(***************************************************************************)
ErrorOf(msg) == [isError |-> TRUE, message |-> msg]

CredentialsMissingMessage ==
    <<"eBay API credentials not configured. Please set EBAY_CLIENT_ID and EBAY_CLIENT_SECRET environment variables. ",
      "Get your credentials at: https://developer.ebay.com/my/keys">>

OAuthFailedMessage(status, errorText) ==
    <<"eBay OAuth failed (", status, "): ">> \o errorText

TokenExpiredMessage == <<"eBay access token expired. Please retry.">>

RateLimitMessage == <<"eBay API rate limit exceeded. Please try again later.">>

SearchFailedMessage(status, errorText) ==
    <<"eBay search failed (", status, "): ">> \o errorText

\* what fetch(), response.text() or response.json() may throw
NetworkThrows ==
    {ErrorOf(<<"fetch failed">>),
     [isError |-> FALSE, message |-> <<"aborted">>]}

JsonThrow == ErrorOf(<<"Unexpected token < in JSON at position 0">>)

\* bodies of non-OK responses
ErrorTexts == {<< >>, <<"Internal Server Error">>}

(***************************************************************************)
(* searchEbay: the catch clause and the two results.                       *)
(***************************************************************************)
\* error instanceof Error ? error.message : 'Unknown error occurred'
CatchMessage(error) ==
    IF error.isError THEN error.message ELSE <<"Unknown error occurred">>

\* a plausible slip: the message left out of the failure
SearchFailure_NoError(query, error) ==
    [success |-> FALSE, products |-> << >>, total |-> 0,
     searchQuery |-> query, error |-> << >>]

SearchFailure(query, error) ==
    [success |-> FALSE, products |-> << >>, total |-> 0,
     searchQuery |-> query, error |-> <<CatchMessage(error)>>]

SearchSuccess(query, data) ==
    [success |-> TRUE,
     products |-> IF data.itemSummaries = << >> THEN << >> ELSE data.itemSummaries[1],
     total |-> data.total,
     searchQuery |-> query, error |-> << >>]

NoResult ==
    [success |-> FALSE, products |-> << >>, total |-> 0,
     searchQuery |-> << >>, error |-> << >>]

(***************************************************************************)
(* Credentials.                                                            *)
(***************************************************************************)
\* an environment variable is unset / empty (<< >>) or set
EnvValues == {<< >>, <<"set">>}

\* a plausible slip: only the client id is looked at
isEbayConfigured_IdOnly == env.EBAY_CLIENT_ID # << >>

\* !!(process.env.EBAY_CLIENT_ID && process.env.EBAY_CLIENT_SECRET)
isEbayConfigured == env.EBAY_CLIENT_ID # << >> /\ env.EBAY_CLIENT_SECRET # << >>

\* getAccessToken's own check: !clientId || !clientSecret throws
CredentialsMissing == env.EBAY_CLIENT_ID = << >> \/ env.EBAY_CLIENT_SECRET = << >>

(***************************************************************************)
(* getAccessToken.                                                         *)
(***************************************************************************)
\* a plausible slip: the buffer taken off the clock instead of added to it
CacheFresh_WrongSign(t) == cachedToken # << >> /\ cachedToken[1].expiresAt > t - Buffer

\* cachedToken && cachedToken.expiresAt > now + 5 * 60 * 1000
CacheFresh(t) == cachedToken # << >> /\ cachedToken[1].expiresAt > t + Buffer

\* a plausible slip: the clock read again when the response is in
ExpiresAt_FromReceipt(start, received, expires_in) == received + expires_in

\* expiresAt: now + data.expires_in * 1000, where `now` is the clock read
\* before the request (start), not the clock at the response (received)
ExpiresAt(start, received, expires_in) == start + expires_in

\* A token carries, besides its identity, the time the server lets it lapse.
ServerToken(id, issuedAt, expires_in) == [id |-> id, exp |-> issuedAt + expires_in]

Expired(tok, t) == tok.exp <= t

(***************************************************************************)
(* searchEbay(query) as run by caller c, step by step.  The locals of a    *)
(* frame that has returned are reset to their initial values.              *)
(***************************************************************************)
\* searchEbay's catch clause, reached from any throw inside its try block
SearchEbayCatch(c, error) ==
    /\ pc' = [pc EXCEPT ![c] = "returned"]
    /\ startNow' = [startNow EXCEPT ![c] = 0]
    /\ accessToken' = [accessToken EXCEPT ![c] = << >>]
    /\ ebayResult' = [ebayResult EXCEPT
           ![c] = SearchFailure(ebayResult[c].searchQuery, error)]

\* getAccessToken has returned tok: the search request is sent with it.
SearchEbayFetch(c, tok) ==
    /\ pc' = [pc EXCEPT ![c] = "await_search"]
    /\ startNow' = [startNow EXCEPT ![c] = 0]
    /\ accessToken' = [accessToken EXCEPT ![c] = <<tok>>]
    /\ searchRequests' = [searchRequests EXCEPT ![c] = @ + 1]

\* The call up to its first await that leaves the process: the credentials
\* check and the cache check of getAccessToken, then the OAuth request if
\* the cache is stale, the search request if it is fresh.
SearchEbayCall(c, query, options) ==
    /\ pc[c] = "idle"
    \* const { limit = 20, ... } = options
    /\ limit' = [limit EXCEPT ![c] = IF options.limit = << >> THEN 20 ELSE options.limit[1]]
    /\ IF CredentialsMissing
       THEN \* getAccessToken throws, the catch clause returns
            /\ pc' = [pc EXCEPT ![c] = "returned"]
            /\ ebayResult' = [ebayResult EXCEPT
                   ![c] = SearchFailure(query, ErrorOf(CredentialsMissingMessage))]
            /\ UNCHANGED <<startNow, accessToken, oauthRequests, searchRequests>>
       ELSE /\ ebayResult' = [ebayResult EXCEPT ![c] = [NoResult EXCEPT !.searchQuery = query]]
            /\ IF CacheFresh(now)
               THEN /\ SearchEbayFetch(c, cachedToken[1].token)
                    /\ UNCHANGED oauthRequests
               ELSE /\ pc' = [pc EXCEPT ![c] = "await_oauth"]
                    /\ startNow' = [startNow EXCEPT ![c] = now]
                    /\ oauthRequests' = [oauthRequests EXCEPT ![c] = @ + 1]
                    /\ UNCHANGED <<accessToken, searchRequests>>
    /\ UNCHANGED <<env, now, cachedToken, issued>>

\* a plausible slip: the slot updated field by field, the expiresAt of the
\* pair already there kept
OAuthOk_TornWrite(c) ==
    /\ pc[c] = "await_oauth"
    /\ issued < MaxTokens
    /\ \E expires_in \in ExpiresInSet, issuedAt \in startNow[c] .. now :
          LET tok == ServerToken(issued + 1, issuedAt, expires_in)
          IN  /\ cachedToken' = <<[token |-> tok,
                                   expiresAt |-> IF cachedToken = << >>
                                                 THEN ExpiresAt(startNow[c], now, expires_in)
                                                 ELSE cachedToken[1].expiresAt]>>
              /\ SearchEbayFetch(c, tok)
    /\ issued' = issued + 1
    /\ UNCHANGED <<env, now, ebayResult, oauthRequests, limit>>

\* The OAuth endpoint answers 200: the token is cached and returned, and
\* the search request is sent.
OAuthOk(c) ==
    /\ pc[c] = "await_oauth"
    /\ issued < MaxTokens
    /\ \E expires_in \in ExpiresInSet, issuedAt \in startNow[c] .. now :
          LET tok == ServerToken(issued + 1, issuedAt, expires_in)
          IN  /\ cachedToken' = <<[token |-> tok,
                                   expiresAt |-> ExpiresAt(startNow[c], now, expires_in)]>>
              /\ SearchEbayFetch(c, tok)
    /\ issued' = issued + 1
    /\ UNCHANGED <<env, now, ebayResult, oauthRequests, limit>>

\* what getAccessToken throws when the OAuth endpoint answers with a non-OK
\* status, the request throws, or the body of a 200 is not JSON
OAuthErrors ==
    {ErrorOf(OAuthFailedMessage(st, txt)) : st \in {"401", "500"}, txt \in ErrorTexts}
        \cup NetworkThrows \cup {JsonThrow}

OAuthFail(c, errors) ==
    /\ pc[c] = "await_oauth"
    /\ \E error \in errors : SearchEbayCatch(c, error)
    /\ UNCHANGED <<env, now, cachedToken, issued, oauthRequests, searchRequests, limit>>

\* The search endpoint answers 200 with a JSON body.  The server accepts
\* only a token that has not lapsed.
SearchOk(c, responses) ==
    /\ pc[c] = "await_search"
    /\ ~Expired(accessToken[c][1], now)
    /\ \E data \in responses :
          ebayResult' = [ebayResult EXCEPT ![c] = SearchSuccess(ebayResult[c].searchQuery, data)]
    /\ pc' = [pc EXCEPT ![c] = "returned"]
    /\ accessToken' = [accessToken EXCEPT ![c] = << >>]
    /\ UNCHANGED <<env, now, cachedToken, issued, startNow, oauthRequests, searchRequests, limit>>

\* a plausible slip: the 401 branch throws without clearing the cache
SearchUnauthorized_KeepsCache(c) ==
    /\ pc[c] = "await_search"
    /\ SearchEbayCatch(c, ErrorOf(TokenExpiredMessage))
    /\ UNCHANGED <<env, now, cachedToken, issued, oauthRequests, searchRequests, limit>>

\* a plausible slip: after a 401 the token is requested again
SearchUnauthorized_Retries(c) ==
    /\ pc[c] = "await_search"
    /\ cachedToken' = << >>
    /\ pc' = [pc EXCEPT ![c] = "await_oauth"]
    /\ startNow' = [startNow EXCEPT ![c] = now]
    /\ accessToken' = [accessToken EXCEPT ![c] = << >>]
    /\ oauthRequests' = [oauthRequests EXCEPT ![c] = @ + 1]
    /\ UNCHANGED <<env, now, issued, ebayResult, searchRequests, limit>>

\* The search endpoint answers 401: the token cache is cleared.
SearchUnauthorized(c) ==
    /\ pc[c] = "await_search"
    /\ cachedToken' = << >>
    /\ SearchEbayCatch(c, ErrorOf(TokenExpiredMessage))
    /\ UNCHANGED <<env, now, issued, oauthRequests, searchRequests, limit>>

\* what searchEbay's try block throws when the search endpoint answers 429
\* or another non-OK status, the request throws, or the body of a 200 is not
\* JSON
SearchErrors ==
    {ErrorOf(RateLimitMessage)}
        \cup {ErrorOf(SearchFailedMessage("500", txt)) : txt \in ErrorTexts}
        \cup NetworkThrows \cup {JsonThrow}

SearchFail(c, errors) ==
    /\ pc[c] = "await_search"
    /\ \E error \in errors : SearchEbayCatch(c, error)
    /\ UNCHANGED <<env, now, cachedToken, issued, oauthRequests, searchRequests, limit>>

\* The caller has taken its EbaySearchResult.
SearchEbayReturn(c) ==
    /\ pc[c] = "returned"
    /\ pc' = [pc EXCEPT ![c] = "idle"]
    /\ ebayResult' = [ebayResult EXCEPT ![c] = NoResult]
    /\ oauthRequests' = [oauthRequests EXCEPT ![c] = 0]
    /\ searchRequests' = [searchRequests EXCEPT ![c] = 0]
    /\ limit' = [limit EXCEPT ![c] = 0]
    /\ UNCHANGED <<env, now, cachedToken, issued, startNow, accessToken>>

\* The clock advances by one unit.
Tick(until) ==
    /\ now < until
    /\ now' = now + 1
    /\ UNCHANGED <<env, cachedToken, issued, pc, startNow, accessToken,
                   ebayResult, oauthRequests, searchRequests, limit>>

(***************************************************************************)
(* JavaScript values as JSON.parse hands them to the agent.                *)
(***************************************************************************)
JUndefined == [t |-> "undefined", n |-> 0, s |-> << >>]
JBool(b) == [t |-> "boolean", n |-> IF b THEN 1 ELSE 0, s |-> << >>]
JNum(n) == [t |-> "number", n |-> n, s |-> << >>]
JStr(s) == [t |-> "string", n |-> 0, s |-> s]

\* ToBoolean
Truthy(v) ==
    CASE v.t = "undefined" -> FALSE
      [] v.t = "boolean" -> v.n = 1
      [] v.t = "number" -> v.n # 0
      [] v.t = "string" -> v.s # << >>

\* the truth_scores vector: an object of four values, or missing
TruthScores(a, b, c, d) ==
    [t |-> "object", objective_truth |-> a, practical_truth |-> b,
     completeness |-> c, contextual_scope |-> d]

TruthMissing ==
    [t |-> "undefined", objective_truth |-> JUndefined, practical_truth |-> JUndefined,
     completeness |-> JUndefined, contextual_scope |-> JUndefined]

(***************************************************************************)
(* searchSimilarProducts: the query built from the request.  A text is the *)
(* sequence of its whitespace-separated words.                             *)
(***************************************************************************)
stopWords ==
    {"the", "a", "an", "and", "or", "but", "in", "on", "at", "to", "for", "of",
     "with", "by", "from", "as", "is", "was", "are", "were", "been", "be", "have",
     "has", "had", "do", "does", "did", "will", "would", "could", "should", "may",
     "might", "must", "shall", "can", "need", "dare", "ought", "used", "this",
     "that", "these", "those", "it", "its", "device", "system", "apparatus",
     "method", "invention", "product", "innovative", "new", "novel", "smart",
     "intelligent", "advanced", "automatic", "automated"}

\* String.prototype.toLowerCase on the words of the model's vocabulary
toLowerCase(w) ==
    CASE w = "Solar" -> "solar"
      [] w = "The" -> "the"
      [] w = "USB" -> "usb"
      [] w = "Smart" -> "smart"
      [] OTHER -> w

\* (word) => word.length > 2 && !stopWords.has(word)
Qualifies(w) == Len(w) > 2 /\ w \notin stopWords

RECURSIVE Filter(_)
\* text.toLowerCase().split(/\s+/).filter(Qualifies)
Filter(words) ==
    IF words = << >> THEN << >>
    ELSE LET w == toLowerCase(Head(words))
         IN  (IF Qualifies(w) THEN <<w>> ELSE << >>) \o Filter(Tail(words))

Take(seq, n) == SubSeq(seq, 1, IF Len(seq) < n THEN Len(seq) ELSE n)

RECURSIVE FlatFilter(_)
\* features.flatMap((f) => f.toLowerCase().split(/\s+/).filter(Qualifies))
FlatFilter(features) ==
    IF features = << >> THEN << >>
    ELSE Filter(Head(features)) \o FlatFilter(Tail(features))

RECURSIVE Dedupe(_)
\* [...new Set(keywords)]: first occurrences, in order
Dedupe(words) ==
    IF words = << >> THEN << >>
    ELSE LET init == Dedupe(SubSeq(words, 1, Len(words) - 1))
             last == words[Len(words)]
         IN  IF \E i \in 1 .. Len(init) : init[i] = last THEN init ELSE Append(init, last)

RECURSIVE Join(_)
\* words.join(' ')
Join(words) ==
    IF words = << >> THEN << >>
    ELSE IF Len(words) = 1 THEN words
    ELSE <<Head(words), " ">> \o Join(Tail(words))

\* the keywords of searchSimilarProducts before de-duplication
Keywords(inventionName, keyFeatures) ==
    Take(Filter(inventionName), 3)
        \o (IF keyFeatures # << >> /\ Len(keyFeatures[1]) > 0
            THEN Take(FlatFilter(Take(keyFeatures[1], 2)), 3)
            ELSE << >>)

\* a plausible slip: the keywords joined without de-duplication
searchSimilarProducts_NoDedupe(inventionName, keyFeatures) ==
    Join(Take(Keywords(inventionName, keyFeatures), 5))

\* the searchQuery handed to searchEbay
searchSimilarProducts(inventionName, keyFeatures) ==
    Join(Take(Dedupe(Keywords(inventionName, keyFeatures)), 5))

\* the options handed to searchEbay with it: { limit: 15 }
SimilarProductsOptions == [limit |-> <<15>>]

\* NoveltyCheckRequests; description, problem_statement and target_audience
\* only reach the prompt and are left out.  key_features is optional.
Requests ==
    {[invention_name |-> <<"Solar", "phone", "case">>,
      key_features |-> << << <<"USB", "charger">>, <<"solar", "panel">> >> >>],
     [invention_name |-> <<"The", "Smart", "device">>,
      key_features |-> << >>],
     [invention_name |-> <<"Solar", "phone", "case", "holder">>,
      key_features |-> << << <<"an", "phone">>, <<"USB", "hub", "on">>, <<"panel">> >> >>],
     [invention_name |-> <<"folding", "bike", "rack", "mount">>,
      key_features |-> << << <<"steel", "frame">>, <<"quick", "lock">> >> >>]}

(***************************************************************************)
(* ebayProductToFinding.                                                   *)
(***************************************************************************)
ebayProductToFinding(product) ==
    [title |-> product.title,
     description |-> (IF product.condition # << >> THEN product.condition ELSE <<"New">>)
                        \o <<" - ">> \o product.title,
     url |-> product.itemWebUrl,
     \* the placeholder: "Will be set by Claude analysis"
     similarity_score |-> JNum(0),
     source |-> "eBay",
     metadata |-> [item_id |-> product.itemId,
                   price |-> IF product.price # << >>
                             THEN <<product.price[1].currency, " ", product.price[1].value>>
                             ELSE <<"Price not available">>,
                   condition |-> product.condition]]

MapFindings(products) == [i \in 1 .. Len(products) |-> ebayProductToFinding(products[i])]

(***************************************************************************)
(* The results of runRetailSearchAgent that do not depend on the oracle.   *)
(***************************************************************************)
ZeroTruth == TruthScores(JNum(0), JNum(0), JNum(0), JNum(0))

\* getCredentialStatus() when credentials are missing
NotConfiguredStatus ==
    <<"eBay API credentials not configured. ",
      "To enable real eBay product search, add EBAY_CLIENT_ID and EBAY_CLIENT_SECRET to your environment variables. ",
      "Get your free credentials at: https://developer.ebay.com/my/keys">>

getCredentialStatus ==
    IF isEbayConfigured THEN <<"eBay API credentials configured">> ELSE NotConfiguredStatus

\* a plausible slip: the confidence of the fallback copied here
NotConfiguredResult_LowConfidence(req, t) ==
    [agent_type |-> "retail_search", is_novel |-> JBool(FALSE), confidence |-> JNum(30),
     findings |-> << >>, summary |-> JStr(getCredentialStatus),
     truth_scores |-> ZeroTruth,
     search_query_used |-> Join(req.invention_name), timestamp |-> t]

NotConfiguredResult(req, t) ==
    [agent_type |-> "retail_search", is_novel |-> JBool(FALSE), confidence |-> JNum(0),
     findings |-> << >>, summary |-> JStr(getCredentialStatus),
     truth_scores |-> ZeroTruth,
     search_query_used |-> Join(req.invention_name), timestamp |-> t]

\* a plausible slip: a generic summary, the error detail dropped
ProviderErrorResult_NoDetail(res, t) ==
    [agent_type |-> "retail_search", is_novel |-> JBool(FALSE), confidence |-> JNum(0),
     findings |-> << >>, summary |-> JStr(<<"eBay API error">>),
     truth_scores |-> ZeroTruth,
     search_query_used |-> res.searchQuery, timestamp |-> t]

ProviderErrorResult(res, t) ==
    [agent_type |-> "retail_search", is_novel |-> JBool(FALSE), confidence |-> JNum(0),
     findings |-> << >>,
     summary |-> JStr(<<"eBay API error: ">>
                        \o (IF res.error = << >> THEN <<"undefined">> ELSE res.error[1])),
     truth_scores |-> ZeroTruth,
     search_query_used |-> res.searchQuery, timestamp |-> t]

\* a plausible slip: absence of results taken as certain novelty
NoProductsResult_Certain(res, t) ==
    [agent_type |-> "retail_search", is_novel |-> JBool(TRUE), confidence |-> JNum(100),
     findings |-> << >>,
     summary |-> JStr(<<"No similar products found on eBay for \"">> \o res.searchQuery
                        \o <<"\".">>),
     truth_scores |-> TruthScores(JNum(80), JNum(70), JNum(50), JNum(80)),
     search_query_used |-> res.searchQuery, timestamp |-> t]

NoProductsResult(res, t) ==
    [agent_type |-> "retail_search", is_novel |-> JBool(TRUE), confidence |-> JNum(70),
     findings |-> << >>,
     summary |-> JStr(<<"No similar products found on eBay for \"">> \o res.searchQuery
                        \o <<"\". This suggests the invention may be novel in the retail marketplace, though further research on other platforms is recommended.">>),
     truth_scores |-> TruthScores(JNum(80), JNum(70), JNum(50), JNum(80)),
     search_query_used |-> res.searchQuery, timestamp |-> t]

\* a plausible slip: the fallback returns no findings
FallbackResult_NoFindings(fs, res, t) ==
    [agent_type |-> "retail_search", is_novel |-> JBool(FALSE), confidence |-> JNum(30),
     findings |-> << >>,
     summary |-> JStr(<<"Found ", ToString(Len(fs)),
                        " potentially similar products on eBay, but analysis failed. Manual review recommended.">>),
     truth_scores |-> TruthScores(JNum(60), JNum(50), JNum(40), JNum(50)),
     search_query_used |-> res.searchQuery, timestamp |-> t]

\* the catch clause of the analysis
FallbackResult(fs, res, t) ==
    [agent_type |-> "retail_search", is_novel |-> JBool(FALSE), confidence |-> JNum(30),
     findings |-> fs,
     summary |-> JStr(<<"Found ", ToString(Len(fs)),
                        " potentially similar products on eBay, but analysis failed. Manual review recommended.">>),
     truth_scores |-> TruthScores(JNum(60), JNum(50), JNum(40), JNum(50)),
     search_query_used |-> res.searchQuery, timestamp |-> t]

(***************************************************************************)
(* The scoring oracle's replies.                                           *)
(*   A reply is a thrown error, a message without content, a first block   *)
(*   that is not text, or a text.  A text is a payload, possibly inside a  *)
(*   code fence and possibly with prose around it.  A payload is text that *)
(*   is not JSON, the JSON null, or a JSON object.                         *)
(***************************************************************************)
\* per-item scores the oracle may give: in range, out of range, missing
\* (CanonScore adds a second score in range)
ScoreValues == {JNum(90), JNum(150), JUndefined}

\* the rationale that comes with a score; the oracle leaves it out for 0.4
AnalysisText(score) ==
    IF score = JNum(40) THEN JUndefined ELSE JStr(<<"Solves the same problem.">>)

AnalysisEntry(id, score) ==
    [t |-> "object", item_id |-> id, similarity_score |-> score,
     analysis |-> AnalysisText(score)]

NullEntry ==
    [t |-> "null", item_id |-> "", similarity_score |-> JUndefined, analysis |-> JUndefined]

AnalysisEntries == {AnalysisEntry(id, sc) : id \in ItemIds, sc \in ScoreValues}

ArrayOf(items) == [t |-> "array", items |-> items]

\* product_analyses: an array of entries, missing, or of another type
ProductAnalysesValues ==
    {ArrayOf(items) : items \in SeqsUpTo(AnalysisEntries, MaxAnalyses)}
        \cup {ArrayOf(<<NullEntry>>),
              [t |-> "undefined", items |-> << >>],
              [t |-> "string", items |-> << >>]}

\* every listed product scored, in the order listed
CanonScore(id) == IF id = "v1|101" THEN JNum(40) ELSE JNum(90)

CanonAnalyses(products) ==
    ArrayOf([i \in 1 .. Len(products) |->
                AnalysisEntry(products[i].itemId, CanonScore(products[i].itemId))])

\* a reply of the shape the prompt asks for
GoodDoc(novel, analyses) ==
    [is_novel |-> JBool(novel), confidence |-> JNum(85),
     summary |-> JStr(<<"Several close matches are on sale.">>),
     truth_scores |-> TruthScores(JNum(90), JNum(80), JNum(70), JNum(80)),
     product_analyses |-> analyses]

EmptyDoc ==
    [is_novel |-> JUndefined, confidence |-> JUndefined, summary |-> JUndefined,
     truth_scores |-> TruthMissing,
     product_analyses |-> [t |-> "undefined", items |-> << >>]]

\* objects that leave the shape in one top-level field
DeviantDocs(analyses) ==
    LET good == GoodDoc(TRUE, analyses)
    IN  {[good EXCEPT !.is_novel = JUndefined],
         [good EXCEPT !.is_novel = JStr(<<"yes">>)],
         [good EXCEPT !.confidence = JUndefined],
         [good EXCEPT !.confidence = JNum(150)],
         [good EXCEPT !.summary = JUndefined],
         [good EXCEPT !.truth_scores = TruthMissing],
         [good EXCEPT !.truth_scores =
              TruthScores(JNum(90), JNum(150), JUndefined, JNum(80))],
         EmptyDoc}

Garbage == [k |-> "garbage", doc |-> EmptyDoc]
JsonNull == [k |-> "null", doc |-> EmptyDoc]
JsonObject(doc) == [k |-> "object", doc |-> doc]

Fences == {"none", "json", "plain", "other"}

TextReply(pre, fence, payload) ==
    [kind |-> "text", pre |-> pre, fence |-> fence, payload |-> payload]

NoTextReply(kind) == [kind |-> kind, pre |-> FALSE, fence |-> "none", payload |-> Garbage]

\* the replies the oracle may give when asked about products
OracleReplies(products) ==
    LET canon == CanonAnalyses(products)
    IN  {NoTextReply(k) : k \in {"throw", "nocontent", "nontext"}}
        \cup {TextReply(pre, fence, payload) :
                 pre \in BOOLEAN, fence \in Fences,
                 payload \in {Garbage, JsonNull, JsonObject(GoodDoc(FALSE, canon))}}
        \cup {TextReply(FALSE, "none", JsonObject(doc)) : doc \in DeviantDocs(canon)}
        \cup {TextReply(FALSE, "none", JsonObject(GoodDoc(TRUE, pa))) :
                 pa \in ProductAnalysesValues}

(***************************************************************************)
(* The analysis of runRetailSearchAgent: the body of its try block.        *)
(***************************************************************************)
\* jsonText after the two fence patterns: the text between ```json\n (or
\* ```\n) and \n```, or else the whole trimmed text
ExtractJson(reply) ==
    IF reply.fence \in {"json", "plain"} THEN reply.payload
    ELSE IF reply.pre \/ reply.fence = "other" THEN Garbage
    ELSE reply.payload

\* JSON.parse: throws on text that is not JSON
JSONparse(jsonText) == [threw |-> jsonText.k = "garbage", value |-> jsonText]

\* analysisResult.product_analyses?.map((a) => [a.item_id, a]) || []
\* throws on null, on a value without map, and on a null entry
AnalysisPairs(parsed) ==
    LET pa == parsed.doc.product_analyses
    IN  IF parsed.k = "null" THEN [threw |-> TRUE, pairs |-> << >>]
        ELSE IF pa.t = "undefined" THEN [threw |-> FALSE, pairs |-> << >>]
        ELSE IF pa.t # "array" THEN [threw |-> TRUE, pairs |-> << >>]
        ELSE IF \E i \in 1 .. Len(pa.items) : pa.items[i].t = "null"
             THEN [threw |-> TRUE, pairs |-> << >>]
        ELSE [threw |-> FALSE, pairs |-> pa.items]

\* new Map(pairs).get(id): the last pair with the key wins
MapGet(pairs, id) ==
    LET hits == {i \in 1 .. Len(pairs) : pairs[i].item_id = id}
    IN  IF hits = {} THEN << >>
        ELSE <<pairs[CHOOSE i \in hits : \A j \in hits : j <= i]>>

\* the callback of findings.map
UpdateFinding(finding, pairs) ==
    LET analysis == MapGet(pairs, finding.metadata.item_id)
    IN  IF analysis # << >>
        THEN [finding EXCEPT
                 !.similarity_score = analysis[1].similarity_score,
                 !.description = IF Truthy(analysis[1].analysis)
                                 THEN analysis[1].analysis.s
                                 ELSE finding.description]
        ELSE finding

UpdatedFindings(fs, pairs) == [i \in 1 .. Len(fs) |-> UpdateFinding(fs[i], pairs)]

\* (a, b) => b.similarity_score - a.similarity_score, on numbers
Compare(a, b) == b.similarity_score.n - a.similarity_score.n

\* x put behind the elements of a sorted sequence that do not sort after it
Insert(sorted, x) ==
    LET k == Cardinality({i \in 1 .. Len(sorted) : Compare(sorted[i], x) <= 0})
    IN  SubSeq(sorted, 1, k) \o <<x>> \o SubSeq(sorted, k + 1, Len(sorted))

RECURSIVE StableSort(_)
StableSort(seq) ==
    IF seq = << >> THEN << >>
    ELSE Insert(StableSort(SubSeq(seq, 1, Len(seq) - 1)), seq[Len(seq)])

Orderings(seq) ==
    {[i \in 1 .. Len(seq) |-> seq[p[i]]] :
        p \in {q \in [1 .. Len(seq) -> 1 .. Len(seq)] :
                  \A i, j \in 1 .. Len(seq) : q[i] = q[j] => i = j}}

\* Array.prototype.sort with Compare: a stable sort when every score is a
\* number; with a score that is not, Compare yields NaN, the comparator is
\* not consistent and the order is implementation-defined
SortOutcomes(seq) ==
    IF \A i \in 1 .. Len(seq) : seq[i].similarity_score.t = "number"
    THEN {StableSort(seq)}
    ELSE Orderings(seq)

ScoredResult(doc, sorted, res, t) ==
    [agent_type |-> "retail_search", is_novel |-> doc.is_novel,
     confidence |-> doc.confidence, findings |-> sorted, summary |-> doc.summary,
     truth_scores |-> doc.truth_scores,
     search_query_used |-> res.searchQuery, timestamp |-> t]

\* The try block on a reply: what it leaves in analysisResult, and whether
\* it threw or which result it returned.
TryAnalysis(reply, fs, res, t) ==
    LET parse == JSONparse(ExtractJson(reply))
        pairs == AnalysisPairs(parse.value)
    IN  IF reply.kind # "text" \/ parse.threw
        THEN {[threw |-> TRUE, parsed |-> << >>, value |-> << >>]}
        ELSE IF pairs.threw
        THEN {[threw |-> TRUE, parsed |-> <<parse.value>>, value |-> << >>]}
        ELSE {[threw |-> FALSE, parsed |-> <<parse.value>>,
               value |-> <<ScoredResult(parse.value.doc, sorted, res, t)>>] :
                 sorted \in SortOutcomes(UpdatedFindings(fs, pairs.pairs))}

\* a plausible slip: the analysis runs outside a try block
TryCatch_NoCatch(outcome, fs, res, t) ==
    IF outcome.threw
    THEN [rejected |-> TRUE, value |-> << >>]
    ELSE [rejected |-> FALSE, value |-> outcome.value]

\* try { ... } catch (error) { return fallback }
TryCatch(outcome, fs, res, t) ==
    IF outcome.threw
    THEN [rejected |-> FALSE, value |-> <<FallbackResult(fs, res, t)>>]
    ELSE [rejected |-> FALSE, value |-> outcome.value]

(***************************************************************************)
(* runRetailSearchAgent as run by AgentCaller, step by step.               *)
(***************************************************************************)
\* Up to the first await that leaves the process.
AgentStart(req) ==
    /\ apc = "idle"
    /\ pc[AgentCaller] = "idle"
    /\ request' = <<req>>
    /\ IF ~isEbayConfigured
       THEN /\ apc' = "done"
            /\ result' = <<NotConfiguredResult(req, now)>>
            /\ UNCHANGED svars
       ELSE /\ apc' = "searching"
            /\ SearchEbayCall(AgentCaller,
                              searchSimilarProducts(req.invention_name, req.key_features),
                              SimilarProductsOptions)
            /\ UNCHANGED result
    /\ UNCHANGED <<findings, analysisResult, oracleRequests>>
    /\ UNCHANGED <<cvars, uvars, gvars>>

\* searchSimilarProducts has resolved (searchEbay catches whatever its try
\* block throws): the two early returns, or the request to the scoring
\* oracle.
AgentAfterSearch ==
    /\ apc = "searching"
    /\ pc[AgentCaller] = "returned"
    /\ LET res == ebayResult[AgentCaller]
       IN  IF ~res.success
           THEN /\ apc' = "done"
                /\ result' = <<ProviderErrorResult(res, now)>>
                /\ UNCHANGED <<findings, oracleRequests>>
           ELSE IF Len(res.products) = 0
           THEN /\ apc' = "done"
                /\ result' = <<NoProductsResult(res, now)>>
                /\ UNCHANGED <<findings, oracleRequests>>
           ELSE /\ apc' = "await_oracle"
                /\ findings' = MapFindings(res.products)
                /\ oracleRequests' = oracleRequests + 1
                /\ UNCHANGED result
    /\ UNCHANGED <<request, analysisResult>>
    /\ UNCHANGED <<svars, cvars, uvars, gvars>>

\* The oracle has answered (or the call has thrown).
AgentOracleReply ==
    /\ apc = "await_oracle"
    /\ LET res == ebayResult[AgentCaller]
       IN  \E reply \in OracleReplies(res.products) :
           \E outcome \in TryAnalysis(reply, findings, res, now) :
              LET settled == TryCatch(outcome, findings, res, now)
              IN  /\ analysisResult' = outcome.parsed
                  /\ apc' = IF settled.rejected THEN "rejected" ELSE "done"
                  /\ result' = settled.value
    /\ UNCHANGED <<request, findings, oracleRequests>>
    /\ UNCHANGED <<svars, cvars, uvars, gvars>>

\* The caller has taken the result; the next invocation may begin.
AgentReset ==
    /\ apc = "done"
    /\ apc' = "idle"
    /\ request' = << >>
    /\ findings' = << >>
    /\ analysisResult' = << >>
    /\ oracleRequests' = 0
    /\ result' = << >>
    /\ IF pc[AgentCaller] = "returned"
       THEN SearchEbayReturn(AgentCaller)
       ELSE UNCHANGED svars
    /\ UNCHANGED <<cvars, uvars, gvars>>

(***************************************************************************)
(* The search cache: the table public.search_cache, its trigger, its row   *)
(* level security and cleanup_expired_cache().  Time is counted in days.   *)
(* put and get, the operations of the store on top of the table, follow    *)
(* section 4.2 of the specification.                                        *)
(***************************************************************************)
\* CHECK (search_type IN ('patent', 'web', 'retail'))
SearchTypes == {"patent", "web", "retail"}

\* auth.role()
Roles == {"anon", "authenticated", "service_role"}

\* the writers of the cache, and what each writes: writer w stores w - 1
\* findings of provider w
Writers == 1 .. NWriters

SourceApi(w) == "provider-" \o ToString(w)

Payload(w) ==
    [results |-> [i \in 1 .. w - 1 |-> [id |-> i, source |-> SourceApi(w)]],
     source_api |-> SourceApi(w)]

\* the partitions put writes to: the one that never expires and one that
\* does (put treats "web" as it treats "retail")
PutTypes == {"patent", "retail"}

\* query_params as submitted to put, and to get: the same or in another
\* case
PutParams == [invention_name |-> <<"Solar", "case">>]

QueryParams == {PutParams, [invention_name |-> <<"solar", "case">>]}

\* the ttl argument of put: not given, or one day
TtlValues == {<< >>, <<1>>}

\* canonical form of query_params: free text lower-cased
Normalize(params) ==
    [invention_name |-> [i \in 1 .. Len(params.invention_name) |->
                            toLowerCase(params.invention_name[i])]]

\* the fingerprint of (search_type, query_params)
Fingerprint(search_type, params) == <<search_type, Normalize(params)>>

Fingerprints == {Fingerprint(ty, q) : ty \in PutTypes, q \in QueryParams}

\* a plausible slip: the column declared without UNIQUE
QueryHashTaken_NotUnique(table, hash) == FALSE

\* query_hash TEXT NOT NULL UNIQUE: a row with this query_hash is there
QueryHashTaken(table, hash) == \E r \in table : r.query_hash = hash

\* INSERT: id, created_at and updated_at take their defaults
InsertRow(cols, id, t) ==
    [id |-> id, query_hash |-> cols.query_hash, search_type |-> cols.search_type,
     query_params |-> cols.query_params, results |-> cols.results,
     result_count |-> cols.result_count, source_api |-> cols.source_api,
     expires_at |-> cols.expires_at, created_at |-> t, updated_at |-> t]

\* a plausible slip: the trigger function returns NEW as it came
update_updated_at_column_Keeps(new, t) == new

\* update_updated_at_column(): NEW.updated_at = NOW()
update_updated_at_column(new, t) == [new EXCEPT !.updated_at = t]

\* a plausible slip: expires_at <= NOW()
ExpiredRows_Inclusive(table, t) ==
    {r \in table : r.expires_at # << >> /\ r.expires_at[1] <= t}

\* WHERE expires_at IS NOT NULL AND expires_at < NOW()
ExpiredRows(table, t) ==
    {r \in table : r.expires_at # << >> /\ r.expires_at[1] < t}

\* a plausible slip: the diagnostics read after a count of the rows left
cleanup_expired_cache_CountsLeft(table, t) ==
    [table |-> table \ ExpiredRows(table, t),
     deleted_count |-> Cardinality(table \ ExpiredRows(table, t))]

\* cleanup_expired_cache(): the table after the DELETE, and ROW_COUNT
cleanup_expired_cache(table, t) ==
    [table |-> table \ ExpiredRows(table, t),
     deleted_count |-> Cardinality(ExpiredRows(table, t))]

\* the rows the SELECT policies let a role see
VisibleRows(role, table) ==
    IF role \in {"authenticated", "service_role"} THEN table ELSE {}

\* a plausible slip: the ttl applied to every partition
ExpiresAtFor_TtlForAll(search_type, ttl, t) ==
    IF ttl = << >> THEN <<t + DefaultTtl>> ELSE <<t + ttl[1]>>

\* TTL policy of put: null for patents, else now + ttl (seven days by default)
ExpiresAtFor(search_type, ttl, t) ==
    IF search_type = "patent" THEN << >>
    ELSE IF ttl = << >> THEN <<t + DefaultTtl>> ELSE <<t + ttl[1]>>

\* the columns put writes
PutColumns(w, search_type, params, ttl, t) ==
    [query_hash |-> Fingerprint(search_type, params), search_type |-> search_type,
     query_params |-> params, results |-> Payload(w).results,
     result_count |-> Len(Payload(w).results), source_api |-> Payload(w).source_api,
     expires_at |-> ExpiresAtFor(search_type, ttl, t)]

\* a plausible slip: the update replaces results and leaves result_count
UpdateRow_StaleCount(old, cols, t) ==
    update_updated_at_column(
        [old EXCEPT !.results = cols.results, !.source_api = cols.source_api,
                    !.expires_at = cols.expires_at], t)

\* UPDATE of the row of a fingerprint; the BEFORE UPDATE trigger runs on it
UpdateRow(old, cols, t) ==
    update_updated_at_column(
        [old EXCEPT !.results = cols.results, !.result_count = cols.result_count,
                    !.source_api = cols.source_api, !.expires_at = cols.expires_at], t)

\* put as one upsert statement: the table and the next free id after it
Upsert(table, cols, id, t) ==
    IF QueryHashTaken(table, cols.query_hash)
    THEN [table |-> {IF r.query_hash = cols.query_hash THEN UpdateRow(r, cols, t) ELSE r :
                        r \in table},
          nextId |-> id]
    ELSE [table |-> table \cup {InsertRow(cols, id, t)}, nextId |-> id + 1]

\* get: the entry of the fingerprint unless its expires_at is in the past
get(table, search_type, params, t) ==
    {r \in table : /\ r.query_hash = Fingerprint(search_type, params)
                   /\ ~(r.expires_at # << >> /\ r.expires_at[1] < t)}

\* lastOp: the last operation of the day, its fingerprint, when it ran, the
\* ttl it was given, the rows it returned, the count it returned, and, for a
\* sweep that follows a sweep, the count of that one
Op(op, hash, t, ttl, rows, count, repeat) ==
    [op |-> op, hash |-> hash, at |-> t, ttl |-> ttl, rows |-> rows,
     count |-> count, repeat |-> repeat]

NoOp == Op("none", << >>, 0, << >>, {}, 0, << >>)

CachePut(w, search_type, params, ttl) ==
    LET cols == PutColumns(w, search_type, params, ttl, dbNow)
        done == Upsert(search_cache, cols, nextId, dbNow)
    IN  /\ done.nextId <= MaxInserts + 1
        /\ search_cache' = done.table
        /\ nextId' = done.nextId
        /\ lastOp' = Op("put", cols.query_hash, dbNow, ttl,
                        {r \in done.table : r.query_hash = cols.query_hash}, 0, << >>)
        /\ UNCHANGED <<dbNow, svars, avars, uvars, gvars>>

CacheGet(search_type, params) ==
    /\ lastOp' = Op("get", Fingerprint(search_type, params), dbNow, << >>,
                    get(search_cache, search_type, params, dbNow), 0, << >>)
    /\ UNCHANGED <<search_cache, dbNow, nextId, svars, avars, uvars, gvars>>

\* SELECT * FROM search_cache WHERE query_hash = hash, as role
CacheSelect(role, hash) ==
    /\ lastOp' = Op("select", hash, dbNow, << >>,
                    {r \in VisibleRows(role, search_cache) : r.query_hash = hash},
                    0, << >>)
    /\ UNCHANGED <<search_cache, dbNow, nextId, svars, avars, uvars, gvars>>

\* SELECT cleanup_expired_cache()
CacheCleanup ==
    LET done == cleanup_expired_cache(search_cache, dbNow)
    IN  /\ search_cache' = done.table
        /\ lastOp' = Op("cleanup", << >>, dbNow, << >>, {}, done.deleted_count,
                        IF lastOp.op = "cleanup" THEN <<lastOp.count>> ELSE << >>)
        /\ UNCHANGED <<dbNow, nextId, svars, avars, uvars, gvars>>

\* a day passes; what the last operation returned is of the day before
CacheTick ==
    /\ dbNow < MaxDbClock
    /\ dbNow' = dbNow + 1
    /\ lastOp' = NoOp
    /\ UNCHANGED <<search_cache, nextId, svars, avars, uvars, gvars>>

(***************************************************************************)
(* The results lists of the review UI: RetailResults and WebResults, with  *)
(* the FindingCard and the NotesField of every finding.  Scores are in     *)
(* hundredths.                                                             *)
(***************************************************************************)
ConflictLevels == {"high", "medium", "low"}

\* what the user may type into a NotesField
Texts == {"", "seen in shops"}

Finding(id, similarityScore) == [id |-> id, similarityScore |-> similarityScore]

\* findings props: scores on both sides of each threshold
FindingsInputs ==
    {<<Finding("f1", 70), Finding("f2", 69)>>,
     <<Finding("f1", 40), Finding("f2", 39)>>,
     <<Finding("f2", 100)>>,
     <<Finding("f1", 0)>>,
     << >>}

\* a plausible slip: the thresholds of the web list drift from the retail ones
WebInitialConflictLevel_Drifted(similarity) ==
    IF similarity >= 80 THEN "high"
    ELSE IF similarity >= 40 THEN "medium"
    ELSE "low"

\* getInitialConflictLevel of the web list
WebInitialConflictLevel(similarity) ==
    IF similarity >= 70 THEN "high"
    ELSE IF similarity >= 40 THEN "medium"
    ELSE "low"

\* getInitialConflictLevel of the retail list
getInitialConflictLevel(similarity) ==
    IF similarity >= 70 THEN "high"
    ELSE IF similarity >= 40 THEN "medium"
    ELSE "low"

\* the useState initializer: one FindingState per finding id, the last
\* finding with an id winning
InitialStates(list, fs) ==
    [id \in {fs[i].id : i \in 1 .. Len(fs)} |->
        LET last == CHOOSE i \in 1 .. Len(fs) :
                       fs[i].id = id /\ \A j \in i + 1 .. Len(fs) : fs[j].id # id
            score == fs[last].similarityScore
        IN  [conflictLevel |-> <<IF list = "WebResults"
                                 THEN WebInitialConflictLevel(score)
                                 ELSE getInitialConflictLevel(score)>>,
             notes |-> <<"">>]]

\* { ...obj, ...updates } on objects whose fields may be missing (<< >>);
\* the spread of undefined is the empty object
Spread(obj, updates) ==
    [conflictLevel |-> IF updates.conflictLevel # << >>
                       THEN updates.conflictLevel ELSE obj.conflictLevel,
     notes |-> IF updates.notes # << >> THEN updates.notes ELSE obj.notes]

\* a plausible slip: the entry replaced by the updates, prev[id] not spread
updateFindingState_NoSpread(prev, id, updates) ==
    [k \in DOMAIN prev \cup {id} |-> IF k = id THEN updates ELSE prev[k]]

\* (prev) => ({ ...prev, [id]: { ...prev[id], ...updates } })
updateFindingState(prev, id, updates) ==
    [k \in DOMAIN prev \cup {id} |->
        IF k = id
        THEN Spread(IF id \in DOMAIN prev THEN prev[id]
                    ELSE [conflictLevel |-> << >>, notes |-> << >>],
                    updates)
        ELSE prev[k]]

\* Object.values(findingStates).filter((s) => s.conflictLevel === level).length
highConflictCount ==
    Cardinality({id \in DOMAIN findingStates :
                    findingStates[id].conflictLevel = <<"high">>})

mediumConflictCount ==
    Cardinality({id \in DOMAIN findingStates :
                    findingStates[id].conflictLevel = <<"medium">>})

\* what the header shows
Badges == [high |-> highConflictCount, medium |-> mediumConflictCount]

\* notes={findingStates[finding.id]?.notes || ''}: NotesField's value prop
NotesValue(states, id) ==
    IF id \in DOMAIN states /\ states[id].notes # << >> THEN states[id].notes[1] ELSE ""

Event(handler, id, calls) == [handler |-> handler, id |-> id, calls |-> calls]

NoEvent == Event("none", "", << >>)

Editing(id) == notesField[id] # << >> /\ notesField[id][1].isEditing

\* a results list is mounted with its findings; every card is collapsed
Mount(list, fs) ==
    /\ component = "none"
    /\ component' = list
    /\ props' = fs
    /\ findingStates' = InitialStates(list, fs)
    /\ notesField' = [id \in {fs[i].id : i \in 1 .. Len(fs)} |-> << >>]
    /\ uiEvent' = Event("mount", "", << >>)
    /\ UNCHANGED <<svars, avars, cvars, gvars>>

\* the list is unmounted: its state and the state of its children is gone
Unmount ==
    /\ component # "none"
    /\ component' = "none"
    /\ props' = << >>
    /\ findingStates' = << >>
    /\ notesField' = << >>
    /\ uiEvent' = NoEvent
    /\ UNCHANGED <<svars, avars, cvars, gvars>>

\* FindingCard: setIsExpanded(!isExpanded); the expanded section mounts the
\* NotesField (useState(false), useState(value)), collapsing unmounts it
ToggleExpanded(id) ==
    /\ id \in DOMAIN notesField
    /\ notesField' = [notesField EXCEPT ![id] =
           IF @ = << >>
           THEN <<[isEditing |-> FALSE, draft |-> NotesValue(findingStates, id)]>>
           ELSE << >>]
    /\ uiEvent' = Event("toggle", id, << >>)
    /\ UNCHANGED <<component, props, findingStates, svars, avars, cvars, gvars>>

\* ConflictSelector: onChange(level), handed on as
\* updateFindingState(finding.id, { conflictLevel: level })
SelectConflict(id, level) ==
    /\ id \in DOMAIN notesField /\ notesField[id] # << >>
    /\ findingStates' = updateFindingState(findingStates, id,
                            [conflictLevel |-> <<level>>, notes |-> << >>])
    /\ uiEvent' = Event("select", id, << >>)
    /\ UNCHANGED <<component, props, notesField, svars, avars, cvars, gvars>>

\* NotesField, not editing: the button's onClick
NotesOpen(id) ==
    /\ id \in DOMAIN notesField /\ notesField[id] # << >> /\ ~Editing(id)
    /\ notesField' = [notesField EXCEPT ![id] =
           <<[isEditing |-> TRUE, draft |-> NotesValue(findingStates, id)]>>]
    /\ uiEvent' = Event("open", id, << >>)
    /\ UNCHANGED <<component, props, findingStates, svars, avars, cvars, gvars>>

\* NotesField, editing: the Textarea's onChange
NotesType(id, text) ==
    /\ id \in DOMAIN notesField /\ Editing(id)
    /\ notesField' = [notesField EXCEPT ![id] = <<[isEditing |-> TRUE, draft |-> text]>>]
    /\ uiEvent' = Event("type", id, << >>)
    /\ UNCHANGED <<component, props, findingStates, svars, avars, cvars, gvars>>

\* a plausible slip: Cancel hands the draft to onChange
handleCancel_Commits(id) ==
    /\ id \in DOMAIN notesField /\ Editing(id)
    /\ findingStates' = updateFindingState(findingStates, id,
                            [conflictLevel |-> << >>, notes |-> <<notesField[id][1].draft>>])
    /\ notesField' = [notesField EXCEPT ![id] =
           <<[isEditing |-> FALSE, draft |-> notesField[id][1].draft]>>]
    /\ uiEvent' = Event("handleCancel", id, <<notesField[id][1].draft>>)
    /\ UNCHANGED <<component, props, svars, avars, cvars, gvars>>

\* NotesField: setDraft(value); setIsEditing(false)
handleCancel(id) ==
    /\ id \in DOMAIN notesField /\ Editing(id)
    /\ notesField' = [notesField EXCEPT ![id] =
           <<[isEditing |-> FALSE, draft |-> NotesValue(findingStates, id)]>>]
    /\ uiEvent' = Event("handleCancel", id, << >>)
    /\ UNCHANGED <<component, props, findingStates, svars, avars, cvars, gvars>>

\* NotesField: onChange(draft); setIsEditing(false).  onChange is
\* (notes) => updateFindingState(finding.id, { notes })
handleSave(id) ==
    /\ id \in DOMAIN notesField /\ Editing(id)
    /\ findingStates' = updateFindingState(findingStates, id,
                            [conflictLevel |-> << >>, notes |-> <<notesField[id][1].draft>>])
    /\ notesField' = [notesField EXCEPT ![id] =
           <<[isEditing |-> FALSE, draft |-> notesField[id][1].draft]>>]
    /\ uiEvent' = Event("handleSave", id, <<notesField[id][1].draft>>)
    /\ UNCHANGED <<component, props, svars, avars, cvars, gvars>>

(***************************************************************************)
(* The aggregator: the results of the agents invoked for one check are     *)
(* collected and merged into one verdict.                                  *)
(***************************************************************************)
AgentTypes == {"patent_search", "web_search", "retail_search"}

\* the request of the check
CheckRequest ==
    [invention_name |-> <<"Solar", "phone", "case">>,
     key_features |-> << << <<"USB", "charger">>, <<"solar", "panel">> >> >>]

\* what runRetailSearchAgent may hand to the aggregator: each of its
\* return statements, on a reply of the oracle that has the asked shape
RetailOutcomes ==
    LET req == CheckRequest
        q == searchSimilarProducts(req.invention_name, req.key_features)
        failed == SearchFailure(q, ErrorOf(RateLimitMessage))
        empty == SearchSuccess(q, [itemSummaries |-> << >>, total |-> 0])
        found == SearchSuccess(q, [itemSummaries |-> << <<Catalog("v1|101")>> >>,
                                   total |-> 1])
        fs == MapFindings(found.products)
        scored == UNION {TryAnalysis(TextReply(FALSE, "none",
                                JsonObject(GoodDoc(novel, CanonAnalyses(found.products)))),
                            fs, found, now) : novel \in BOOLEAN}
    IN  IF ~isEbayConfigured
        THEN {NotConfiguredResult(req, now)}
        ELSE {ProviderErrorResult(failed, now), NoProductsResult(empty, now),
              FallbackResult(fs, found, now)}
                 \cup {o.value[1] : o \in {x \in scored : ~x.threw}}

\* a NoveltyResult of the patent or of the web agent
OtherAgentResults(agent) ==
    {[agent_type |-> agent, is_novel |-> JBool(novel), confidence |-> JNum(conf),
      findings |-> << >>, summary |-> JStr(<<"summary of ", agent>>),
      truth_scores |-> ZeroTruth,
      search_query_used |-> Join(CheckRequest.invention_name), timestamp |-> now] :
        novel \in BOOLEAN, conf \in {0, 85}}

ResultsOf(agent) ==
    IF agent = "retail_search" THEN RetailOutcomes ELSE OtherAgentResults(agent)

\* a plausible slip: a result of confidence 0 is given no say
AggregateIsNovel_IgnoresDegraded(results) ==
    \A a \in DOMAIN results :
        results[a].confidence.n > 0 => results[a].is_novel # JBool(FALSE)

\* false if any invoked agent reports false
AggregateIsNovel(results) ==
    \A a \in DOMAIN results : results[a].is_novel # JBool(FALSE)

\* an invoked agent hands in its result
Collect(agent, r) ==
    /\ aggregate = << >>
    /\ agent \notin DOMAIN agentResults
    /\ agentResults' = [a \in DOMAIN agentResults \cup {agent} |->
                            IF a = agent THEN r ELSE agentResults[a]]
    /\ UNCHANGED aggregate
    /\ UNCHANGED <<svars, avars, cvars, uvars>>

\* the results of the invoked agents, one at least, are merged
Aggregate ==
    /\ aggregate = << >>
    /\ DOMAIN agentResults # {}
    /\ aggregate' = <<[is_novel |-> JBool(AggregateIsNovel(agentResults))]>>
    /\ UNCHANGED agentResults
    /\ UNCHANGED <<svars, avars, cvars, uvars>>

\* the verdict has been returned; the next check starts with no results
NewCheck ==
    /\ aggregate # << >>
    /\ agentResults' = << >>
    /\ aggregate' = << >>
    /\ UNCHANGED <<svars, avars, cvars, uvars>>

(***************************************************************************)
(* Initial state: the module has just been loaded, the table is empty.     *)
(***************************************************************************)
Init ==
    /\ env \in [EBAY_CLIENT_ID : EnvValues, EBAY_CLIENT_SECRET : EnvValues]
    /\ now = 0
    /\ cachedToken = << >>
    /\ issued = 0
    /\ pc = [c \in Callers |-> "idle"]
    /\ startNow = [c \in Callers |-> 0]
    /\ accessToken = [c \in Callers |-> << >>]
    /\ ebayResult = [c \in Callers |-> NoResult]
    /\ oauthRequests = [c \in Callers |-> 0]
    /\ searchRequests = [c \in Callers |-> 0]
    /\ limit = [c \in Callers |-> 0]
    /\ apc = "idle"
    /\ request = << >>
    /\ findings = << >>
    /\ analysisResult = << >>
    /\ oracleRequests = 0
    /\ result = << >>
    /\ search_cache = {}
    /\ dbNow = 0
    /\ nextId = 1
    /\ lastOp = NoOp
    /\ component = "none"
    /\ props = << >>
    /\ findingStates = << >>
    /\ notesField = << >>
    /\ uiEvent = NoEvent
    /\ agentResults = << >>
    /\ aggregate = << >>

(***************************************************************************)
(* SpecSearch: concurrent searchEbay calls sharing the token cache.  What  *)
(* the endpoints answer is drawn from one representative of each class.    *)
(***************************************************************************)
SearchQuery == <<"solar", " ", "case">>

SearchPages == {[itemSummaries |-> <<<<Catalog("v1|101")>>>>, total |-> 1]}

SearchCall(c) == SearchEbayCall(c, SearchQuery, [limit |-> << >>]) /\ UNCHANGED <<avars, cvars, uvars, gvars>>
SearchOAuthOk(c) == OAuthOk(c) /\ UNCHANGED <<avars, cvars, uvars, gvars>>
SearchOAuthFail(c) ==
    OAuthFail(c, {ErrorOf(OAuthFailedMessage("500", << >>))}) /\ UNCHANGED <<avars, cvars, uvars, gvars>>
SearchGotOk(c) == SearchOk(c, SearchPages) /\ UNCHANGED <<avars, cvars, uvars, gvars>>
SearchGot401(c) == SearchUnauthorized(c) /\ UNCHANGED <<avars, cvars, uvars, gvars>>
\* the search request throws a value that is not an Error
SearchGotFail(c) ==
    SearchFail(c, {e \in NetworkThrows : ~e.isError}) /\ UNCHANGED <<avars, cvars, uvars, gvars>>
SearchReturn(c) == SearchEbayReturn(c) /\ UNCHANGED <<avars, cvars, uvars, gvars>>
SearchTick == Tick(MaxClock) /\ UNCHANGED <<avars, cvars, uvars, gvars>>

NextSearch ==
    \/ \E c \in Callers : SearchCall(c)
    \/ \E c \in Callers : SearchOAuthOk(c)
    \/ \E c \in Callers : SearchOAuthFail(c)
    \/ \E c \in Callers : SearchGotOk(c)
    \/ \E c \in Callers : SearchGot401(c)
    \/ \E c \in Callers : SearchGotFail(c)
    \/ \E c \in Callers : SearchReturn(c)
    \/ SearchTick

SpecSearch == Init /\ [][NextSearch]_vars

(***************************************************************************)
(* Spec: invocations of runRetailSearchAgent, one after the other, with    *)
(* every answer of the OAuth endpoint, the search endpoint and the oracle. *)
(***************************************************************************)
AgentBegin == \E req \in Requests : AgentStart(req)
AgentOAuthOk == OAuthOk(AgentCaller) /\ UNCHANGED <<avars, cvars, uvars, gvars>>
AgentOAuthFail == OAuthFail(AgentCaller, OAuthErrors) /\ UNCHANGED <<avars, cvars, uvars, gvars>>
AgentSearchOk == SearchOk(AgentCaller, SearchResponses) /\ UNCHANGED <<avars, cvars, uvars, gvars>>
AgentSearch401 == SearchUnauthorized(AgentCaller) /\ UNCHANGED <<avars, cvars, uvars, gvars>>
AgentSearchFail == SearchFail(AgentCaller, SearchErrors) /\ UNCHANGED <<avars, cvars, uvars, gvars>>
\* time passes while an invocation runs and between invocations
AgentTick == apc # "done" /\ Tick(AgentMaxClock) /\ UNCHANGED <<avars, cvars, uvars, gvars>>

Next ==
    \/ AgentBegin
    \/ AgentOAuthOk
    \/ AgentOAuthFail
    \/ AgentSearchOk
    \/ AgentSearch401
    \/ AgentSearchFail
    \/ AgentAfterSearch
    \/ AgentOracleReply
    \/ AgentReset
    \/ AgentTick

Spec == Init /\ [][Next]_vars

\* Spec with the scheduling the runtime guarantees: once searchEbay has
\* settled, the continuation of the agent runs.  Nothing makes an endpoint
\* or the oracle answer, and the code sets no timer on its requests.
SpecLive == Spec /\ WF_vars(AgentAfterSearch)

(***************************************************************************)
(* SpecCache: puts by several writers, reads and sweeps on the search      *)
(* cache, in any order, as the database clock advances.                    *)
(***************************************************************************)
CachePuts ==
    \E w \in Writers, ty \in PutTypes, ttl \in TtlValues :
        CachePut(w, ty, PutParams, ttl)
CacheGets == \E ty \in PutTypes, q \in QueryParams : CacheGet(ty, q)
CacheSelects == \E role \in Roles, hash \in Fingerprints : CacheSelect(role, hash)

NextCache ==
    \/ CachePuts
    \/ CacheGets
    \/ CacheSelects
    \/ CacheCleanup
    \/ CacheTick

\* the cache does not depend on the provider's credentials
InitCache == Init /\ isEbayConfigured

SpecCache == InitCache /\ [][NextCache]_vars

(***************************************************************************)
(* SpecReview: a user reviews the findings of a results list.              *)
(***************************************************************************)
FindingIds == {"f1", "f2"}

Mounts ==
    \E list \in {"RetailResults", "WebResults"}, fs \in FindingsInputs : Mount(list, fs)

NextReview ==
    \/ Mounts
    \/ Unmount
    \/ \E id \in FindingIds : ToggleExpanded(id)
    \/ \E id \in FindingIds, level \in ConflictLevels : SelectConflict(id, level)
    \/ \E id \in FindingIds : NotesOpen(id)
    \/ \E id \in FindingIds, text \in Texts : NotesType(id, text)
    \/ \E id \in FindingIds : handleCancel(id)
    \/ \E id \in FindingIds : handleSave(id)

SpecReview == InitCache /\ [][NextReview]_vars

(***************************************************************************)
(* SpecAggregate: checks one after another, each with the agents the       *)
(* caller chose to invoke, under any setting of the credentials.           *)
(***************************************************************************)
NextAggregate ==
    \/ \E agent \in AgentTypes : \E r \in ResultsOf(agent) : Collect(agent, r)
    \/ Aggregate
    \/ NewCheck

SpecAggregate == Init /\ [][NextAggregate]_vars

(***************************************************************************)
(* Properties of runRetailSearchAgent, checked under Spec.                 *)
(***************************************************************************)
Done == apc = "done"

\* sub is a run of consecutive chunks of str
Contains(str, sub) ==
    \E i \in 0 .. Len(str) - Len(sub) : SubSeq(str, i + 1, i + Len(sub)) = sub

\* a float in [0,1]
IsUnit(v) == v.t = "number" /\ v.n >= 0 /\ v.n <= 100

IsTruthVector(ts) ==
    /\ ts.t = "object"
    /\ IsUnit(ts.objective_truth) /\ IsUnit(ts.practical_truth)
    /\ IsUnit(ts.completeness) /\ IsUnit(ts.contextual_scope)

\* r is a NoveltyResult of the retail agent as section 3 of the spec types it
IsNoveltyResult(r) ==
    /\ r.agent_type = "retail_search"
    /\ r.is_novel.t = "boolean"
    /\ IsUnit(r.confidence)
    /\ r.summary.t = "string"
    /\ IsTruthVector(r.truth_scores)
    /\ \A i \in 1 .. Len(r.findings) : IsUnit(r.findings[i].similarity_score)

\* the structured shape the prompt asks the oracle for
ConformsToShape(parsed) ==
    /\ parsed.k = "object"
    /\ parsed.doc.is_novel.t = "boolean"
    /\ IsUnit(parsed.doc.confidence)
    /\ parsed.doc.summary.t = "string"
    /\ IsTruthVector(parsed.doc.truth_scores)
    /\ parsed.doc.product_analyses.t = "array"
    /\ \A i \in 1 .. Len(parsed.doc.product_analyses.items) :
          LET a == parsed.doc.product_analyses.items[i]
          IN  a.t = "object" /\ IsUnit(a.similarity_score) /\ a.analysis.t = "string"

\* the result carries the products of the page, one finding each, in order
CarriesAllProducts(r, products) ==
    /\ Len(r.findings) = Len(products)
    /\ \A i \in 1 .. Len(products) :
          /\ r.findings[i].metadata.item_id = products[i].itemId
          /\ r.findings[i].title = products[i].title
          /\ r.findings[i].url = products[i].itemWebUrl

AnalysisFailedText ==
    <<" potentially similar products on eBay, but analysis failed. Manual review recommended.">>

\* the fallback of section 4.4: unscored findings, confidence 0.3
IsFallback(r, products) ==
    /\ r.is_novel = JBool(FALSE)
    /\ r.confidence = JNum(30)
    /\ CarriesAllProducts(r, products)
    /\ r.summary.t = "string" /\ Contains(r.summary.s, AnalysisFailedText)

\* the oracle was asked and JSON.parse never returned: the call threw, the
\* first block was missing or not text, or the text was not JSON
OracleUnparsed == Done /\ oracleRequests = 1 /\ analysisResult = << >>

\* C1: runRetailSearchAgent never rejects, whatever the endpoints and the
\* oracle answer; and when the oracle failed, was unparsable or answered in
\* the expected shape, the value it resolves to is a NoveltyResult.
C1_NeverThrows ==
    /\ apc # "rejected"
    /\ Done => result # << >>
    /\ (Done /\ (analysisResult = << >> \/ ConformsToShape(analysisResult[1])))
          => IsNoveltyResult(result[1])

\* the oracle call threw (or gave nothing to parse) and the agent resolved
C1_Witness == OracleUnparsed /\ result # << >> /\ result[1].confidence = JNum(30)

\* C2: with at least one candidate and an oracle that throws, answers with
\* a non-text block or with text that is not JSON, the result is is_novel =
\* false, confidence 0.3, every fetched finding in provider order, and a
\* summary saying that analysis failed and manual review is recommended.
C2_FallbackOnOracleFailure ==
    OracleUnparsed =>
        /\ Len(ebayResult[AgentCaller].products) >= 1
        /\ IsFallback(result[1], ebayResult[AgentCaller].products)

\* the fallback taken with two candidates
C2_Witness ==
    /\ OracleUnparsed
    /\ Len(ebayResult[AgentCaller].products) = 2
    /\ Len(result[1].findings) = 2
    /\ result[1].findings[1].metadata.item_id # result[1].findings[2].metadata.item_id

\* C3: a reply that parses but deviates from the expected shape is treated
\* as an oracle failure (the fallback is returned), and no result has
\* is_novel, confidence, summary or truth_scores undefined.
C3_DeviationIsFailure ==
    (Done /\ oracleRequests = 1) =>
        /\ (analysisResult # << >> /\ ~ConformsToShape(analysisResult[1]))
              => IsFallback(result[1], ebayResult[AgentCaller].products)
        /\ result[1].is_novel.t # "undefined"
        /\ result[1].confidence.t # "undefined"
        /\ result[1].summary.t # "undefined"
        /\ result[1].truth_scores.t # "undefined"

\* C4: every finding of every result has a similarity_score in [0,1].
C4_ScoreInUnitInterval ==
    Done => \A i \in 1 .. Len(result[1].findings) :
                IsUnit(result[1].findings[i].similarity_score)

\* the oracle gave finding f its score
OracleAssigned(f) ==
    /\ analysisResult # << >>
    /\ ~AnalysisPairs(analysisResult[1]).threw
    /\ MapGet(AnalysisPairs(analysisResult[1]).pairs, f.metadata.item_id) # << >>
    /\ result[1].confidence # JNum(30)

\* C5: every returned finding carries a score the oracle assigned; a
\* finding the oracle never scored is not returned with the placeholder.
C5_NoPlaceholderScore ==
    Done => \A i \in 1 .. Len(result[1].findings) : OracleAssigned(result[1].findings[i])

\* C6: without credentials the agent short-circuits: confidence 0, is_novel
\* false, no findings, truth scores all 0, a non-empty summary, and no
\* request to the OAuth endpoint, the search endpoint or the oracle.
C6_NotConfiguredShortCircuit ==
    CredentialsMissing =>
        /\ apc \in {"idle", "done"}
        /\ pc[AgentCaller] = "idle"
        /\ oauthRequests[AgentCaller] = 0
        /\ searchRequests[AgentCaller] = 0
        /\ oracleRequests = 0
        /\ Done =>
              /\ result[1].confidence = JNum(0)
              /\ result[1].is_novel = JBool(FALSE)
              /\ result[1].findings = << >>
              /\ result[1].truth_scores = TruthScores(JNum(0), JNum(0), JNum(0), JNum(0))
              /\ result[1].summary.t = "string" /\ result[1].summary.s # << >>

\* an invocation has resolved with only the client secret missing
C6_Witness ==
    /\ Done
    /\ env.EBAY_CLIENT_ID # << >> /\ env.EBAY_CLIENT_SECRET = << >>
    /\ result[1].summary = JStr(NotConfiguredStatus)

\* the search succeeded with no candidate, and the agent resolved
EmptyPage ==
    /\ Done
    /\ pc[AgentCaller] = "returned"
    /\ ebayResult[AgentCaller].success
    /\ Len(ebayResult[AgentCaller].products) = 0

\* C7: on a successful search with zero candidates the result is is_novel =
\* true, confidence 0.7 (strictly below 1.0), no findings, and the oracle is
\* not asked.
C7_NoCandidates ==
    EmptyPage =>
        /\ result[1].is_novel = JBool(TRUE)
        /\ result[1].confidence = JNum(70)
        /\ result[1].confidence.n < 100
        /\ result[1].findings = << >>
        /\ oracleRequests = 0

\* an empty page answered a search that went out with a cached token
C7_Witness == EmptyPage /\ oauthRequests[AgentCaller] = 0 /\ searchRequests[AgentCaller] = 1

\* the search failed, and the agent resolved
SearchFailed ==
    /\ Done
    /\ pc[AgentCaller] = "returned"
    /\ ~ebayResult[AgentCaller].success

\* C8: when the provider search fails (OAuth failure, 401, 429, another
\* status, an exception) the result is is_novel = false, confidence 0, no
\* findings, a summary that embeds the provider's error message, and the
\* oracle is not asked.
C8_ProviderFailure ==
    SearchFailed =>
        /\ result[1].is_novel = JBool(FALSE)
        /\ result[1].confidence = JNum(0)
        /\ result[1].findings = << >>
        /\ ebayResult[AgentCaller].error # << >>
        /\ ebayResult[AgentCaller].error[1] # << >>
        /\ result[1].summary.t = "string"
        /\ Contains(result[1].summary.s, ebayResult[AgentCaller].error[1])
        /\ oracleRequests = 0

\* the search was answered 429 and the agent resolved
C8_Witness ==
    /\ SearchFailed
    /\ searchRequests[AgentCaller] = 1
    /\ ebayResult[AgentCaller].error = <<RateLimitMessage>>

\* a >= b as JavaScript compares two scores
ScoreGeq(a, b) == a.t = "number" /\ b.t = "number" /\ a.n >= b.n

\* C9: the findings of every result are ordered by similarity_score,
\* non-increasing.
C9_FindingsSorted ==
    Done => \A i \in 1 .. Len(result[1].findings) - 1 :
                ScoreGeq(result[1].findings[i].similarity_score,
                         result[1].findings[i + 1].similarity_score)

(***************************************************************************)
(* Properties of the token cache, checked under SpecSearch.                *)
(***************************************************************************)
\* C10: getAccessToken hands out the cached token only if its expiresAt is
\* more than the buffer after the time of the call, and such a token has not
\* lapsed; otherwise it requests a new token from the OAuth endpoint.
C10_NoExpiredCachedToken ==
    [][\A c \in Callers :
          /\ (pc[c] = "idle" /\ pc'[c] = "await_search") =>
                /\ cachedToken # << >>
                /\ cachedToken[1].expiresAt > now + Buffer
                /\ accessToken'[c] = <<cachedToken[1].token>>
                /\ ~Expired(cachedToken[1].token, now)
                /\ oauthRequests'[c] = oauthRequests[c]
          /\ (pc[c] = "idle" /\ pc'[c] = "await_oauth") =>
                /\ cachedToken = << >> \/ cachedToken[1].expiresAt <= now + Buffer
                /\ oauthRequests'[c] = oauthRequests[c] + 1]_vars

\* a caller searches with the cached token, after the clock has advanced
\* and while another caller waits for the OAuth endpoint
C10_Witness ==
    \E c, d \in Callers :
        /\ c # d
        /\ now > 0
        /\ pc[c] = "await_search" /\ oauthRequests[c] = 0
        /\ cachedToken # << >> /\ accessToken[c] = <<cachedToken[1].token>>
        /\ pc[d] = "await_oauth"

\* caller c's getAccessToken returns the token the OAuth endpoint sent it
Refreshed(c) == pc[c] = "await_oauth" /\ pc'[c] = "await_search"

\* a step changes the slot only as a whole
SlotStep ==
    /\ \A c \in Callers :
          Refreshed(c) =>
             /\ cachedToken' # << >>
             /\ accessToken'[c] = <<cachedToken'[1].token>>
             /\ cachedToken'[1].token.id = issued + 1
             /\ \E e \in ExpiresInSet :
                   /\ cachedToken'[1].expiresAt = startNow[c] + e
                   /\ cachedToken'[1].token.exp - e \in startNow[c] .. now
                   /\ ~Expired(cachedToken'[1].token, cachedToken'[1].token.exp - e)
    /\ (cachedToken' # cachedToken) =>
          (cachedToken' = << >> \/ \E c \in Callers : Refreshed(c))

\* C11: callers that find the cache stale each fetch a token of their own;
\* the slot changes only as a whole: it is emptied, or one refreshing caller
\* stores the token it returns together with the expiresAt it computed from
\* its own clock reading and that token's expires_in.  The token a caller
\* returns is new and its lifetime had not run out when the server issued it.
C11_SlotHoldsOneCallersPair == [][SlotStep]_vars

\* over-fetch: two callers found the cache stale, each got a token of its
\* own, and the slot holds the pair of the one that stored last although the
\* pair of the other had a different expiresAt
C11_Witness ==
    \E c, d \in Callers :
        /\ c # d
        /\ pc[c] = "await_search" /\ pc[d] = "await_search"
        /\ oauthRequests[c] = 1 /\ oauthRequests[d] = 1
        /\ accessToken[c] # accessToken[d]
        /\ cachedToken = <<[token |-> accessToken[d][1],
                            expiresAt |-> accessToken[d][1].exp]>>
        /\ accessToken[c][1].exp # accessToken[d][1].exp

(***************************************************************************)
(* Properties of the token cache, checked under Spec (every failure of the *)
(* two endpoints).                                                         *)
(***************************************************************************)
\* caller c's searchEbay fails in this step, with message msg or another
FailsWith(c, msg) ==
    /\ pc[c] \in {"await_oauth", "await_search"} /\ pc'[c] = "returned"
    /\ ~ebayResult'[c].success
    /\ ebayResult'[c].error = <<msg>>

FailsOtherwise(c) ==
    /\ pc[c] \in {"await_oauth", "await_search"} /\ pc'[c] = "returned"
    /\ ~ebayResult'[c].success
    /\ ebayResult'[c].error # <<TokenExpiredMessage>>

CacheOnFailureStep ==
    \A c \in Callers :
        /\ FailsWith(c, TokenExpiredMessage) => cachedToken' = << >>
        /\ FailsOtherwise(c) => cachedToken' = cachedToken
        /\ (pc[c] = "idle" /\ pc'[c] # "idle" /\ cachedToken = << >> /\ ~CredentialsMissing)
              => (pc'[c] = "await_oauth" /\ oauthRequests'[c] = oauthRequests[c] + 1)

\* C12: a 401 from the search endpoint empties the token cache, so the next
\* getAccessToken call requests a token from the OAuth endpoint; a 429,
\* another non-OK status, a thrown request or an OAuth failure leaves the
\* cache as it was.
C12_Only401ClearsCache == [][CacheOnFailureStep]_vars

\* after a token was issued the cache is empty again, and the next call is
\* waiting for the OAuth endpoint
C12_Witness ==
    /\ issued >= 1
    /\ cachedToken = << >>
    /\ pc[AgentCaller] = "await_oauth"

(***************************************************************************)
(* Termination, checked under SpecLive.                                    *)
(***************************************************************************)
\* C13: every invocation of runRetailSearchAgent eventually returns: a
\* request that is not answered is ended by a timeout and counts as that
\* call's failure.
C13_EventuallyReturns == (apc \in {"searching", "await_oracle"}) ~> Done

(***************************************************************************)
(* Properties of the search cache, checked under SpecCache.                *)
(***************************************************************************)
\* the step is a run of cleanup_expired_cache()
SweepStep == lastOp'.op = "cleanup" /\ dbNow' = dbNow

InThePast(r, t) == r.expires_at # << >> /\ r.expires_at[1] < t

\* C14: the cache holds at most one entry per query_hash, and the results,
\* source_api and result_count of every entry are those of one writer.
C14_OneEntryPerFingerprint ==
    /\ \A r1, r2 \in search_cache : r1.query_hash = r2.query_hash => r1 = r2
    /\ \A r \in search_cache :
          \E w \in Writers :
             /\ r.results = Payload(w).results
             /\ r.source_api = Payload(w).source_api
             /\ r.result_count = Len(Payload(w).results)

\* two writers have put for the same fingerprint: the second put found the
\* entry of the first and replaced it
C14_Witness ==
    /\ lastOp.op = "put"
    /\ \E r \in search_cache :
          /\ r.query_hash = lastOp.hash
          /\ r.source_api = SourceApi(2)
          /\ r.id = 1 /\ nextId = 2
          /\ r.updated_at > r.created_at
          /\ \A q \in search_cache : q.query_hash = r.query_hash => q = r

\* C15: cleanup_expired_cache() deletes exactly the rows whose expires_at is
\* non-null and earlier than now, leaves every other row as it was, and
\* returns the number of rows it deleted.
C15_SweepDeletesExactlyExpired ==
    [][SweepStep =>
          /\ search_cache' \subseteq search_cache
          /\ \A r \in search_cache : (r \notin search_cache') <=> InThePast(r, dbNow)
          /\ lastOp'.count = Cardinality(search_cache) - Cardinality(search_cache')]_vars

\* a sweep deleted the expired row and left the patent row
C15_Witness ==
    /\ lastOp.op = "cleanup" /\ lastOp.count = 1
    /\ \E r \in search_cache : r.expires_at = << >>

\* C16: a sweep run right after a sweep (no operation and no day in
\* between) deletes nothing and returns 0.
C16_SweepIdempotent ==
    [][(SweepStep /\ lastOp.op = "cleanup") =>
          (search_cache' = search_cache /\ lastOp'.count = 0)]_vars

\* the second of two sweeps in a row; the first deleted rows
C16_Witness ==
    /\ lastOp.op = "cleanup"
    /\ lastOp.repeat # << >> /\ lastOp.repeat[1] >= 1
    /\ lastOp.count = 0

C18_PatentsNeverExpire ==
    [][/\ \A r \in search_cache' : r.search_type = "patent" => r.expires_at = << >>
       /\ SweepStep =>
             \A r \in search_cache : r.search_type = "patent" => r \in search_cache']_vars

\* a patent entry put with a ttl of one day is there two days later, after a
\* sweep
C18_Witness ==
    /\ lastOp.op = "cleanup"
    /\ \E r \in search_cache : r.search_type = "patent" /\ r.updated_at + 1 < dbNow

\* the step is a get of the fingerprint just put
GetAfterPut ==
    /\ lastOp.op = "put" /\ lastOp'.op = "get"
    /\ lastOp'.hash = lastOp.hash /\ dbNow' = dbNow

\* C19: a get right after a put for the same (search_type, query_params)
\* returns the entry just written, with the results just written; and every
\* entry has result_count equal to the length of its results.
C19_PutThenGet ==
    [][/\ GetAfterPut =>
             /\ lastOp'.rows = lastOp.rows
             /\ Cardinality(lastOp'.rows) = 1
             /\ \A r \in lastOp'.rows :
                   \E w \in Writers : r.results = Payload(w).results
       /\ \A r \in search_cache' : r.result_count = Len(r.results)]_vars

\* a get returned an entry that a put of today replaced by one without
\* results
C19_Witness ==
    /\ lastOp.op = "get"
    /\ \E r \in lastOp.rows :
          /\ r.updated_at > r.created_at
          /\ r.updated_at = dbNow
          /\ r.result_count = 0

\* C20: an update of a row sets its updated_at to the time of the update and
\* leaves its created_at; updated_at >= created_at in every entry.
C20_UpdatedAtRefreshed ==
    [][/\ \A old \in search_cache, new \in search_cache' :
             (new.id = old.id /\ new # old) =>
                (new.updated_at = dbNow /\ new.created_at = old.created_at)
       /\ \A r \in search_cache' : r.updated_at >= r.created_at]_vars

\* an entry was replaced on a later day than it was created
C20_Witness ==
    \E r \in search_cache : r.updated_at > r.created_at /\ r.source_api = SourceApi(1)

(***************************************************************************)
(* Further properties of runRetailSearchAgent, checked under Spec.         *)
(***************************************************************************)
\* C22: every NoveltyResult the agent returns has a confidence in [0,1] and
\* a truth_scores vector with all four components present and in [0,1], on
\* every path, the one that copies the oracle's values included.
C22_ConfidenceAndTruthInUnit ==
    Done => /\ IsUnit(result[1].confidence)
            /\ IsTruthVector(result[1].truth_scores)

\* the query of the search request the invocation sent, if it sent one
SentQuery ==
    IF searchRequests[AgentCaller] >= 1
    THEN <<ebayResult[AgentCaller].searchQuery>>
    ELSE << >>

\* C23: in every NoveltyResult the agent returns, search_query_used is the
\* query string that was sent to the search endpoint during the invocation.
C23_QueryUsedIsQuerySent ==
    Done => SentQuery = <<result[1].search_query_used>>

(***************************************************************************)
(* Further properties of searchEbay, checked under SpecSearch.             *)
(***************************************************************************)
\* caller c's searchEbay call settles in this step
Settles(c) == pc[c] # "returned" /\ pc'[c] = "returned"

\* C24: searchEbay never throws: every call settles with a result.  On
\* success the result is success = true with the provider's items and total;
\* on every failure (missing credentials, OAuth non-OK, search non-OK, a
\* thrown error) it is success = false, products = [], total = 0, searchQuery
\* equal to the query argument, and a non-empty error message.
SettlesWithResult ==
    \A c \in Callers :
       /\ pc'[c] \in {"idle", "await_oauth", "await_search", "returned"}
       /\ Settles(c) =>
             LET r == ebayResult'[c]
             IN  /\ r.searchQuery = SearchQuery
                 /\ IF r.success
                    THEN /\ pc[c] = "await_search"
                         /\ \E data \in SearchPages :
                               /\ r.products = data.itemSummaries[1]
                               /\ r.total = data.total
                    ELSE /\ r.products = << >>
                         /\ r.total = 0
                         /\ r.error # << >> /\ r.error[1] # << >>

C24_SearchEbayNeverThrows == [][SettlesWithResult]_vars

\* one call has failed on a thrown value that is not an Error, another on
\* the answer of the OAuth endpoint
C24_Witness ==
    \E c, d \in Callers :
       /\ pc[c] = "returned" /\ pc[d] = "returned"
       /\ ebayResult[c].error = <<<<"Unknown error occurred">>>>
       /\ ebayResult[d].error = <<OAuthFailedMessage("500", << >>)>>

(***************************************************************************)
(* The order of the requests of one searchEbay call, checked under Spec.   *)
(***************************************************************************)
\* C25: within one searchEbay call there is at most one OAuth request, then
\* at most one search request; the search request is sent only with a token
\* in hand (cached or fresh); when token acquisition fails no search request
\* is sent; and no request follows a 401 or any other failure.
OneCallStep ==
    LET c == AgentCaller
    IN  /\ oauthRequests'[c] <= 1 /\ searchRequests'[c] <= 1
        /\ oauthRequests'[c] > oauthRequests[c] =>
              /\ pc[c] = "idle"
              /\ searchRequests'[c] = 0
        /\ searchRequests'[c] > searchRequests[c] =>
              /\ accessToken'[c] # << >>
              /\ \/ pc[c] = "idle" /\ CacheFresh(now)
                                   /\ accessToken'[c] = <<cachedToken[1].token>>
                 \/ pc[c] = "await_oauth" /\ cachedToken' # << >>
                                          /\ accessToken'[c] = <<cachedToken'[1].token>>
        /\ (pc[c] = "await_oauth" /\ pc'[c] = "returned") => searchRequests'[c] = 0
        /\ Settles(c) =>
              /\ oauthRequests'[c] = oauthRequests[c]
              /\ searchRequests'[c] = searchRequests[c]
        /\ pc[c] = "returned" => pc'[c] \in {"returned", "idle"}

C25_OneTokenThenOneSearch == [][OneCallStep]_vars

\* a call that asked for a token, searched with it and got a 401 has
\* returned
C25_Witness ==
    /\ pc[AgentCaller] = "returned"
    /\ ebayResult[AgentCaller].error = <<TokenExpiredMessage>>
    /\ oauthRequests[AgentCaller] = 1 /\ searchRequests[AgentCaller] = 1

(***************************************************************************)
(* The expiry recorded with a fetched token, checked under Spec.           *)
(***************************************************************************)
\* C26: the expiresAt stored with a freshly fetched token is the clock value
\* read before the OAuth request plus expires_in, hence never later than the
\* time of the response plus expires_in; and the cache never records an
\* expiry later than the time the server lets the token lapse, whatever the
\* latency of the request.
ExpiryStep ==
    /\ Refreshed(AgentCaller) =>
          \E expires_in \in ExpiresInSet :
             /\ cachedToken'[1].expiresAt = startNow[AgentCaller] + expires_in
             /\ cachedToken'[1].expiresAt <= now + expires_in
    /\ cachedToken' # << >> => cachedToken'[1].expiresAt <= cachedToken'[1].token.exp

C26_ExpiryNeverOverestimated == [][ExpiryStep]_vars

\* the response took a time unit and the server issued the token when it
\* answered: the cached expiry is earlier than the token's
C26_Witness ==
    /\ cachedToken # << >>
    /\ cachedToken[1].expiresAt < cachedToken[1].token.exp

(***************************************************************************)
(* The query of searchSimilarProducts, checked under Spec.                 *)
(***************************************************************************)
\* the words of a query: what stands between its blanks
QueryWords(q) == [i \in 1 .. ((Len(q) + 1) \div 2) |-> q[2 * i - 1]]

RECURSIVE TakenInOrder(_, _)
\* words is taken, in order, from pool
TakenInOrder(words, pool) ==
    IF words = << >> THEN TRUE
    ELSE IF pool = << >> THEN FALSE
    ELSE IF Head(words) = Head(pool) THEN TakenInOrder(Tail(words), Tail(pool))
    ELSE TakenInOrder(words, Tail(pool))

\* the first three qualifying words of the name, then the first three
\* qualifying words of the first two key features
WordPool(req) ==
    Take(Filter(req.invention_name), 3)
        \o (IF req.key_features = << >> THEN << >>
            ELSE Take(FlatFilter(Take(req.key_features[1], 2)), 3))

WellBuilt(q, req) ==
    LET words == QueryWords(q)
    IN  /\ q = Join(words)
        /\ Len(words) <= 5
        /\ \A i, j \in 1 .. Len(words) : words[i] = words[j] => i = j
        /\ \A i \in 1 .. Len(words) :
              /\ toLowerCase(words[i]) = words[i]
              /\ words[i] \notin stopWords
              /\ Len(words[i]) > 2
        /\ TakenInOrder(words, WordPool(req))

\* C27: the query searchSimilarProducts sends is at most 5 pairwise-distinct
\* lower-case words, none a stop word, none of length <= 2, taken in order
\* from the first 3 qualifying words of the invention name followed by the
\* first 3 qualifying words of the first 2 key features; the search is
\* issued with limit 15, and is issued when the query is empty too.
QueryStep ==
    LET c == AgentCaller
    IN  /\ (request' # << >> /\ isEbayConfigured) =>
              /\ WellBuilt(ebayResult'[c].searchQuery, request'[1])
              /\ limit'[c] = 15
        /\ (apc = "idle" /\ request' # << >> /\ isEbayConfigured) =>
              pc'[c] \in {"await_oauth", "await_search"}

C27_QueryOfAtMostFiveKeywords == [][QueryStep]_vars

\* a search request with the first five of six distinct keywords is out
C27_Witness ==
    /\ pc[AgentCaller] = "await_search"
    /\ Len(WordPool(request[1])) = 6
    /\ QueryWords(ebayResult[AgentCaller].searchQuery)
          = <<"folding", "bike", "rack", "steel", "frame">>
    /\ limit[AgentCaller] = 15

(***************************************************************************)
(* C28  NotesField edit protocol.  Entering edit mode sets the draft to    *)
(* the current value and calls nothing; Cancel leaves edit mode, calls     *)
(* nothing and leaves every finding's state alone; Save calls onChange     *)
(* exactly once, with the draft as it stood, and leaves edit mode, so the  *)
(* value becomes that draft.  After every step a field that is not being   *)
(* edited holds no text other than its value: what Cancel abandoned is     *)
(* gone and no later Save commits it.                                      *)
(***************************************************************************)
NoAbandonedDraft(fields, states) ==
    \A id \in DOMAIN fields :
        (fields[id] # << >> /\ ~fields[id][1].isEditing)
            => fields[id][1].draft = NotesValue(states, id)

NotesProtocolStep ==
    /\ uiEvent'.handler = "open" =>
          LET id == uiEvent'.id IN
          /\ notesField'[id] = <<[isEditing |-> TRUE,
                                   draft |-> NotesValue(findingStates, id)]>>
          /\ uiEvent'.calls = << >>
          /\ findingStates' = findingStates
    /\ uiEvent'.handler = "handleCancel" =>
          LET id == uiEvent'.id IN
          /\ notesField[id][1].isEditing /\ ~notesField'[id][1].isEditing
          /\ uiEvent'.calls = << >>
          /\ findingStates' = findingStates
    /\ uiEvent'.handler = "handleSave" =>
          LET id == uiEvent'.id IN
          /\ notesField[id][1].isEditing /\ ~notesField'[id][1].isEditing
          /\ uiEvent'.calls = <<notesField[id][1].draft>>
          /\ NotesValue(findingStates', id) = notesField[id][1].draft
    /\ uiEvent'.handler \notin {"handleSave"} => uiEvent'.calls = << >>
    /\ NoAbandonedDraft(notesField', findingStates')

C28_NotesEditProtocol == [][NotesProtocolStep]_vars

\* a Cancel has just thrown away typed text, the saved notes being another text
C28_Witness ==
    /\ uiEvent.handler = "handleCancel"
    /\ \E id \in DOMAIN notesField :
          /\ uiEvent.id = id
          /\ notesField[id] = <<[isEditing |-> FALSE, draft |-> "seen in shops"]>>
          /\ findingStates[id].notes = <<"seen in shops">>

(***************************************************************************)
(* C29  The conflict level a finding starts with depends on its similarity *)
(* score alone, by the same thresholds in the retail and in the web list:  *)
(* high iff score >= 0.7, medium iff 0.4 <= score < 0.7, low iff           *)
(* score < 0.4.  The High and Medium counts of the header are the numbers  *)
(* of findings of the list whose level is now high, respectively medium.   *)
(***************************************************************************)
LevelOfScore(level, score) ==
    /\ level = "high" <=> score >= 70
    /\ level = "medium" <=> (40 <= score /\ score < 70)
    /\ level = "low" <=> score < 40

\* conflictLevel={findingStates[finding.id]?.conflictLevel || 'low'}
ShownLevel(finding) ==
    IF finding.id \in DOMAIN findingStates /\ findingStates[finding.id].conflictLevel # << >>
    THEN findingStates[finding.id].conflictLevel[1]
    ELSE "low"

FindingsAt(level) == Cardinality({i \in 1 .. Len(props) : ShownLevel(props[i]) = level})

C29_LevelsByThresholdAndCounts ==
    component # "none" =>
        /\ uiEvent.handler = "mount" =>
              \A i \in 1 .. Len(props) :
                  /\ ShownLevel(props[i]) \in ConflictLevels
                  /\ LevelOfScore(ShownLevel(props[i]), props[i].similarityScore)
        /\ Badges.high = FindingsAt("high")
        /\ Badges.medium = FindingsAt("medium")

\* the web list just mounted with scores 0.7 and 0.69: one high, one medium
C29_Witness ==
    /\ component = "WebResults"
    /\ uiEvent.handler = "mount"
    /\ props = <<Finding("f1", 70), Finding("f2", 69)>>
    /\ Badges = [high |-> 1, medium |-> 1]

(***************************************************************************)
(* C30  updateFindingState(id, updates) changes, in the entry of id, the   *)
(* fields that updates names and nothing else: the other field of that     *)
(* entry and every other entry stay as they were.  Every tracked entry     *)
(* always has a conflictLevel among high, medium, low and a notes string.  *)
(***************************************************************************)
WellFormedStates ==
    \A id \in DOMAIN findingStates :
        /\ Len(findingStates[id].conflictLevel) = 1
        /\ findingStates[id].conflictLevel[1] \in ConflictLevels
        /\ Len(findingStates[id].notes) = 1
        /\ findingStates[id].notes[1] \in Texts

UpdateFrameStep ==
    /\ uiEvent'.handler \in {"select", "handleSave"} =>
          /\ DOMAIN findingStates' = DOMAIN findingStates
          /\ \A k \in DOMAIN findingStates :
                k # uiEvent'.id => findingStates'[k] = findingStates[k]
    /\ uiEvent'.handler = "select" =>
          findingStates'[uiEvent'.id].notes = findingStates[uiEvent'.id].notes
    /\ uiEvent'.handler = "handleSave" =>
          /\ findingStates'[uiEvent'.id].conflictLevel
                 = findingStates[uiEvent'.id].conflictLevel
          /\ findingStates'[uiEvent'.id].notes = uiEvent'.calls
    /\ WellFormedStates'

C30_UpdateTouchesOnlyNamedFields == [][UpdateFrameStep]_vars

\* f1 re-levelled and annotated, f2 as it was mounted; f1's notes were just saved
C30_Witness ==
    /\ uiEvent = Event("handleSave", "f1", <<"seen in shops">>)
    /\ props = <<Finding("f1", 70), Finding("f2", 69)>>
    /\ findingStates["f1"] = [conflictLevel |-> <<"low">>, notes |-> <<"seen in shops">>]
    /\ findingStates["f2"] = [conflictLevel |-> <<"medium">>, notes |-> <<"">>]

(***************************************************************************)
(* C21  Whatever non-empty set of agents was invoked, the aggregate        *)
(* is_novel is false as soon as one of their results has is_novel false;   *)
(* a degraded result of confidence 0 with is_novel false is enough.        *)
(***************************************************************************)
C21_AnyFalseMakesAggregateFalse ==
    aggregate # << >> =>
        /\ DOMAIN agentResults # {}
        /\ (\E a \in DOMAIN agentResults : agentResults[a].is_novel = JBool(FALSE))
              => aggregate[1].is_novel = JBool(FALSE)

\* patent and web report novelty with confidence; the retail agent, without
\* credentials, hands in its zero-confidence result: the aggregate is false
C21_Witness ==
    /\ aggregate = <<[is_novel |-> JBool(FALSE)]>>
    /\ DOMAIN agentResults = AgentTypes
    /\ agentResults["retail_search"] = NotConfiguredResult(CheckRequest, now)
    /\ agentResults["retail_search"].confidence = JNum(0)
    /\ \A a \in AgentTypes \ {"retail_search"} :
          agentResults[a].is_novel = JBool(TRUE) /\ agentResults[a].confidence = JNum(85)

====
